---- MODULE Spec2Model ----
(***************************************************************************)
(* Model of the sinogram library (sino_funct.py, mirrored by               *)
(* src/sinogram.py): the Sinogram record and its rendering, its ingestion  *)
(* functions and the transforms crop, unshuffle, get_histogram and         *)
(* get_mod_factor; and of the Tk application built on it (sino_gui.py).    *)
(*                                                                         *)
(* Representation.                                                         *)
(*  - A 2-D numpy array is [shape |-> <<n, w>>, rows |-> <<row_1..row_n>>] *)
(*    with every row a sequence of w numbers.  Open-times are exact        *)
(*    integers (numpy floats holding whole values); quotients are exact    *)
(*    rationals [num, den] in lowest terms.                                *)
(*  - Python dicts are objects with identity: `dicts` is the heap of dict  *)
(*    objects, a record's meta is an index into it.  dicts[DefaultMeta] is *)
(*    the object created once for the default argument `meta={}`.          *)
(*  - `records` is the sequence of Sinogram objects produced so far.       *)
(*  - `op`, `arg`, `out` describe the last call: its name, its arguments   *)
(*    and what it returned or raised.  `plot` is what the last call drew   *)
(*    with plt.hist and saved.                                             *)
(*  - `gui` is the state of the Tk application of sino_gui.py: the value   *)
(*    of self.sinogram and the text of the status bar.                     *)
(***************************************************************************)
EXTENDS Integers, Sequences, FiniteSets, TLC

VARIABLES dicts, records, op, arg, out, plot, gui

vars == <<dicts, records, op, arg, out, plot, gui>>

(***************************************************************************)
(* Program constants                                                       *)
(***************************************************************************)
MaxLeaves == 64

DefaultMeta == 1

InvalidLeavesMsg == "invalid number of mlc leaves"

\* the number of gantry angles, i.e. of buckets of unshuffle
NumAngles == 51

\* the number of projections of the sinogram of test_unshuffle
TestProjs == 510

(***************************************************************************)
(* Bounds of the model                                                     *)
(***************************************************************************)
MaxCells == 4

NegVals == 1

MaxVal == 2

WideRows == 2

MaxBins == 3

MaxRecords == 2

TallLeaves == 9

Vals == (0 - NegVals)..MaxVal

(***************************************************************************)
(* Arithmetic helpers                                                      *)
(***************************************************************************)
Abs(x) == IF x < 0 THEN -x ELSE x

RECURSIVE Gcd(_, _)
Gcd(a, b) == IF b = 0 THEN a ELSE Gcd(b, a % b)

\* the float n/d (d # 0) as a rational in lowest terms with positive denominator
Rat(n, d) ==
    LET g == Gcd(Abs(n), Abs(d))
        s == IF d < 0 THEN -1 ELSE 1
    IN  [num |-> (s * n) \div g, den |-> (s * d) \div g]

\* float division a / b of two rationals: numpy gives nan for 0 / 0 and an
\* infinity for x / 0 (with a warning), no exception
RatDiv(a, b) ==
    IF b.num = 0 THEN [kind |-> IF a.num = 0 THEN "nan" ELSE "inf"]
    ELSE [kind |-> "value", val |-> Rat(a.num * b.den, a.den * b.num)]

\* s[lo] + ... + s[hi], by halving
RECURSIVE SumRange(_, _, _)
SumRange(s, lo, hi) ==
    IF lo > hi THEN 0
    ELSE IF lo = hi THEN s[lo]
    ELSE LET mid == (lo + hi) \div 2
         IN  SumRange(s, lo, mid) + SumRange(s, mid + 1, hi)

SumSeq(s) == SumRange(s, 1, Len(s))

\* the values of the rows of a 2-D array in row-major order
Flatten(rows) ==
    LET w == IF rows = <<>> THEN 0 ELSE Len(rows[1])
    IN  [k \in 1..(Len(rows) * w) |-> rows[((k - 1) \div w) + 1][((k - 1) % w) + 1]]

Reverse(s) == [i \in 1..Len(s) |-> s[Len(s) + 1 - i]]

SeqMax(s) == CHOOSE x \in {s[i] : i \in 1..Len(s)} : \A j \in 1..Len(s) : s[j] <= x

SeqMin(s) == CHOOSE x \in {s[i] : i \in 1..Len(s)} : \A j \in 1..Len(s) : x <= s[j]

(***************************************************************************)
(* Python dict objects                                                     *)
(***************************************************************************)
EmptyDict == [k \in {} |-> TRUE]

\* d[k] = v
SetItem(d, k, v) == [x \in (DOMAIN d) \cup {k} |-> IF x = k THEN v ELSE d[x]]

(***************************************************************************)
(* Sinogram.__init__(data, meta): stores data, the meta reference and the  *)
(* shape, then checks the leaf count.  `ref` is the dict object passed as  *)
(* meta, `ds` the dict heap.  Returns the new heap and the object, or the  *)
(* ValueError.                                                             *)
(***************************************************************************)
\* mutant: the upper bound taken as exclusive
LeafCountOkExclusive(w) == 0 <= w /\ w < MaxLeaves

\* mutant: a record needs at least one leaf
LeafCountOkPositive(w) == 0 < w /\ w <= MaxLeaves

LeafCountOk(w) == 0 <= w /\ w <= MaxLeaves

\* mutant: a caller-supplied 'cropped' is kept (dict.setdefault)
SinogramInitSetDefault(data, ref, ds) ==
    IF LeafCountOk(data.shape[2])
    THEN [ok    |-> TRUE,
          dicts |-> [ds EXCEPT ![ref] =
                       IF "cropped" \in DOMAIN @ THEN @
                       ELSE SetItem(@, "cropped", data.shape[2] < MaxLeaves)],
          obj   |-> [data |-> data, meta |-> ref, shape |-> data.shape],
          err   |-> ""]
    ELSE [ok    |-> FALSE,
          dicts |-> ds,
          obj   |-> [data |-> data, meta |-> ref, shape |-> data.shape],
          err   |-> InvalidLeavesMsg]

\* mutant: the flag is not derived from the leaf count at all
SinogramInitNoFlag(data, ref, ds) ==
    IF LeafCountOk(data.shape[2])
    THEN [ok    |-> TRUE,
          dicts |-> ds,
          obj   |-> [data |-> data, meta |-> ref, shape |-> data.shape],
          err   |-> ""]
    ELSE [ok    |-> FALSE,
          dicts |-> ds,
          obj   |-> [data |-> data, meta |-> ref, shape |-> data.shape],
          err   |-> InvalidLeavesMsg]

SinogramInit(data, ref, ds) ==
    IF LeafCountOk(data.shape[2])
    THEN [ok    |-> TRUE,
          dicts |-> [ds EXCEPT ![ref] = SetItem(@, "cropped", data.shape[2] < MaxLeaves)],
          obj   |-> [data |-> data, meta |-> ref, shape |-> data.shape],
          err   |-> ""]
    ELSE [ok    |-> FALSE,
          dicts |-> ds,
          obj   |-> [data |-> data, meta |-> ref, shape |-> data.shape],
          err   |-> InvalidLeavesMsg]

(***************************************************************************)
(* crop(uncropped)                                                         *)
(***************************************************************************)
\* mutant: a closed leaf counts as used (>= instead of >)
AnyOpenOrClosed(data) ==
    [c \in 1..data.shape[2] |-> \E r \in 1..data.shape[1] : data.rows[r][c] >= 0]

\* list(np.any(data > 0, axis=0)): one boolean per leaf column
AnyOpen(data) ==
    [c \in 1..data.shape[2] |-> \E r \in 1..data.shape[1] : data.rows[r][c] > 0]

\* idx or idx[::-1] on Python lists: a non-empty list is truthy, so `or`
\* returns its left operand; only the empty list falls through to the right.
ListOr(a, b) == IF Len(a) > 0 THEN a ELSE b

Symmetrize(idx) == ListOr(idx, Reverse(idx))

\* the positions selected by a boolean mask, ascending
RECURSIVE MaskRange(_, _, _)
MaskRange(idx, lo, hi) ==
    IF lo > hi THEN <<>>
    ELSE IF lo = hi THEN (IF idx[lo] THEN <<lo>> ELSE <<>>)
    ELSE LET mid == (lo + hi) \div 2
         IN  MaskRange(idx, lo, mid) \o MaskRange(idx, mid + 1, hi)

MaskCols(idx) == MaskRange(idx, 1, Len(idx))

\* mutant: the selected columns are taken in descending order
TakeColsReversed(data, idx) ==
    LET cols == Reverse(MaskCols(idx))
    IN  [shape |-> <<data.shape[1], Len(cols)>>,
         rows  |-> [r \in 1..data.shape[1] |->
                      [k \in 1..Len(cols) |-> data.rows[r][cols[k]]]]]

\* data[:, idx]
TakeCols(data, idx) ==
    LET cols == MaskCols(idx)
    IN  [shape |-> <<data.shape[1], Len(cols)>>,
         rows  |-> [r \in 1..data.shape[1] |->
                      [k \in 1..Len(cols) |-> data.rows[r][cols[k]]]]]

CropIdx(data) == Symmetrize(AnyOpen(data))

CropData(data) == TakeCols(data, CropIdx(data))

CropMeta == [cropped |-> TRUE]

(***************************************************************************)
(* get_mod_factor(sinogram)                                                *)
(***************************************************************************)
\* a[mask] on a flat array: the elements where the boolean mask is true
TakeMasked(vals, mask) ==
    LET keep == MaskCols(mask)
    IN  [k \in 1..Len(keep) |-> vals[keep[k]]]

\* mutant: zeros are kept in the selection (>= instead of >)
NonNegative(vals) == TakeMasked(vals, [k \in 1..Len(vals) |-> vals[k] >= 0])

\* sinogram.data[sinogram.data > 0]
Positive(vals) == TakeMasked(vals, [k \in 1..Len(vals) |-> vals[k] > 0])

\* np.mean of a non-empty selection
Mean(vals) == Rat(SumSeq(vals), Len(vals))

\* np.max raises ValueError on a zero-size array; np.mean of an empty
\* selection is nan (with a RuntimeWarning) and x / nan is nan.
ModFactor(data) ==
    LET vals == Flatten(data.rows)
        pos  == Positive(vals)
    IN  IF vals = <<>> THEN [kind |-> "error", err |-> "ValueError"]
        ELSE IF pos = <<>> THEN [kind |-> "nan"]
        ELSE RatDiv(Rat(SeqMax(vals), 1), Mean(pos))

(***************************************************************************)
(* get_histogram(sinogram, bins, file_name)                                *)
(***************************************************************************)
\* mutant: an empty range is widened by 1 on both sides
OuterEdges2WidenByOne(first, last) ==
    IF first = last THEN <<2 * first - 2, 2 * last + 2>>
    ELSE <<2 * first, 2 * last>>

\* np.histogram's outer edges in half units (2 * edge): the given range,
\* widened by 0.5 on both sides when it is empty (first = last).
OuterEdges2(first, last) ==
    IF first = last THEN <<2 * first - 1, 2 * last + 1>>
    ELSE <<2 * first, 2 * last>>

\* np.linspace(first_edge, last_edge, n + 1)
BinEdges(e2, n) ==
    [i \in 1..(n + 1) |-> Rat(e2[1] * n + (i - 1) * (e2[2] - e2[1]), 2 * n)]

\* keep = (a >= first_edge) & (a <= last_edge)
InRange(v, e2) == e2[1] <= 2 * v /\ 2 * v <= e2[2]

\* mutant: the index of the top edge is not moved into the last bin
BinIndexNoClamp(v, e2, n) == (((2 * v - e2[1]) * n) \div (e2[2] - e2[1])) + 1

\* the 1-based bin of a kept value: int((v - first) / (last - first) * n),
\* an index equal to n is moved into the last bin
BinIndex(v, e2, n) ==
    LET i == ((2 * v - e2[1]) * n) \div (e2[2] - e2[1])
    IN  IF i = n THEN n ELSE i + 1

\* np.histogram(a, bins=n, range=(first, last)) for an integer n >= 1
NpHistogram(vals, n, first, last) ==
    IF first > last THEN [kind |-> "error", err |-> "ValueError"]
    ELSE LET e2 == OuterEdges2(first, last)
         IN  [kind   |-> "hist",
              counts |-> [b \in 1..n |->
                            Cardinality({k \in 1..Len(vals) :
                                InRange(vals[k], e2) /\ BinIndex(vals[k], e2, n) = b})],
              edges  |-> BinEdges(e2, n)]

\* mutant: the range of the data, (min, max)
HistRangeMinMax(vals) == <<SeqMin(vals), SeqMax(vals)>>

\* the range get_histogram passes to np.histogram
HistRange(vals) == <<0, SeqMax(vals)>>

\* plt.hist(x, bins=n): the range is (min(x), max(x)), or np.histogram's
\* default (0, 1) when x is empty
PlotHist(x, n) ==
    IF x = <<>> THEN NpHistogram(x, n, 0, 1)
    ELSE NpHistogram(x, n, SeqMin(x), SeqMax(x))

\* what get_histogram draws and saves: only the strictly positive values
SavedPlot(data, n) == PlotHist(Positive(Flatten(data.rows)), n)

\* mutant: with a file name the returned histogram is the plotted one
HistogramOfPlot(data, n, file_name) ==
    LET vals == Flatten(data.rows)
    IN  IF vals = <<>> THEN [kind |-> "error", err |-> "ValueError"]
        ELSE IF file_name # "" THEN PlotHist(Positive(vals), n)
        ELSE NpHistogram(vals, n, HistRange(vals)[1], HistRange(vals)[2])

\* what get_histogram returns; np.max raises ValueError on a zero-size array
Histogram(data, n, file_name) ==
    LET vals == Flatten(data.rows)
    IN  IF vals = <<>> THEN [kind |-> "error", err |-> "ValueError"]
        ELSE NpHistogram(vals, n, HistRange(vals)[1], HistRange(vals)[2])

(***************************************************************************)
(* unshuffle(shuffled)                                                     *)
(***************************************************************************)
\* unshuffled = [[] for i in range(51)]
EmptyBuckets == [i \in 1..NumAngles |-> <<>>]

\* mutant: the index wraps one bucket early
NextIdxShort(idx) == (idx + 1) % (NumAngles - 1)

\* idx = (idx + 1) % 51
NextIdx(idx) == (idx + 1) % NumAngles

\* the loop `for projection in shuffled.data` over rows[lo..hi], started in
\* the loop state st = [unshuffled, idx]; the range is run in two halves,
\* the first to its end (idx is then a bucket index again), the second
\* started in the state the first one ends in
RECURSIVE UnshuffleLoop(_, _, _, _)
UnshuffleLoop(rows, lo, hi, st) ==
    IF lo > hi THEN st
    ELSE IF lo = hi
         THEN [unshuffled |-> [st.unshuffled EXCEPT ![st.idx + 1] = Append(@, rows[lo])],
               idx        |-> NextIdx(st.idx)]
    ELSE LET mid   == (lo + hi) \div 2
             first == UnshuffleLoop(rows, lo, mid, st)
         IN  IF first.idx < Len(first.unshuffled)
             THEN UnshuffleLoop(rows, mid + 1, hi, first)
             ELSE first

\* mutant: only the buckets that received a projection are returned
UnshuffledUsed(data) ==
    LET all == UnshuffleLoop(data.rows, 1, data.shape[1],
                             [unshuffled |-> EmptyBuckets, idx |-> 0]).unshuffled
        n   == IF data.shape[1] < NumAngles THEN data.shape[1] ELSE NumAngles
    IN  SubSeq(all, 1, n)

\* the list unshuffle returns
Unshuffled(data) ==
    UnshuffleLoop(data.rows, 1, data.shape[1],
                  [unshuffled |-> EmptyBuckets, idx |-> 0]).unshuffled

(***************************************************************************)
(* Sinogram.__str__                                                        *)
(***************************************************************************)
\* the formatted description, as the sequence of its parts
Description(n, w, lo, hi) ==
    <<"Sinogram object: ", n, " projs | ", w, " leaves | open time (", lo, " -> ", hi, ")">>

\* the arguments of format are evaluated in order: self.data[0] raises
\* IndexError on an array without rows, which `except ValueError` does not
\* catch; np.min raises ValueError on a zero-size array, which it does.
StrOf(data) ==
    IF data.shape[1] = 0 THEN [kind |-> "error", err |-> "IndexError"]
    ELSE IF data.shape[2] = 0 THEN [kind |-> "str", text |-> <<>>]
    ELSE [kind |-> "str",
          text |-> Description(data.shape[1], data.shape[2],
                               SeqMin(Flatten(data.rows)), SeqMax(Flatten(data.rows)))]

(***************************************************************************)
(* Ingestion: from_csv and from_bin                                        *)
(***************************************************************************)
BinLeaves == 64

\* [line[1:] for line in reader] as a 2-D array (at least one line)
CsvData(lines) ==
    [shape |-> <<Len(lines), Len(lines[1]) - 1>>,
     rows  |-> [i \in 1..Len(lines) |-> Tail(lines[i])]]

\* np.reshape(data, (len(data) // 64, 64))
Reshape(flat) ==
    [shape |-> <<Len(flat) \div BinLeaves, BinLeaves>>,
     rows  |-> [r \in 1..(Len(flat) \div BinLeaves) |->
                  SubSeq(flat, (r - 1) * BinLeaves + 1, r * BinLeaves)]]

(***************************************************************************)
(* Inputs                                                                  *)
(***************************************************************************)
ArraysOf(r, c, V) == {[shape |-> <<r, c>>, rows |-> m] : m \in [1..r -> [1..c -> V]]}

SmallShapes == {s \in (0..MaxCells) \X (0..MaxCells) : s[1] * s[2] <= MaxCells}

SmallArrays == UNION {ArraysOf(s[1], s[2], Vals) : s \in SmallShapes}

\* a row of w leaves, open (1) on lo..hi and closed (0) elsewhere
WideRow(w, lo, hi) == [c \in 1..w |-> IF lo <= c /\ c <= hi THEN 1 ELSE 0]

\* all leaves open, the two central leaves open, the first leaf open, none open
WideSpans(w) == {<<1, w>>, <<w \div 2, (w \div 2) + 1>>, <<1, 1>>, <<1, 0>>}

WideArrays ==
    UNION {{[shape |-> <<r, w>>, rows |-> [i \in 1..r |-> WideRow(w, s[1], s[2])]] :
               s \in WideSpans(w), r \in 0..WideRows} :
           w \in (MaxLeaves - 1)..(MaxLeaves + 1)}

\* projection k (0-based) of a tall array: the binary digits of k, so that
\* the projections differ from each other
TallRow(k) == [c \in 1..TallLeaves |-> (k \div (2 ^ (c - 1))) % 2]

\* one projection short of a full turn, a full turn, one and two more than
\* full turns, and the sinogram length of test_unshuffle
TallHeights == {NumAngles - 1, NumAngles, NumAngles + 1, 2 * NumAngles + 1, TestProjs}

TallArrays ==
    {[shape |-> <<n, TallLeaves>>, rows |-> [k \in 1..n |-> TallRow(k - 1)]] :
        n \in TallHeights}

\* the meta argument of Sinogram(data, meta): omitted, or a dict of the caller
NoMeta == [given |-> FALSE, dict |-> EmptyDict]

NoPlot == [kind |-> "none"]

(***************************************************************************)
(* Operations                                                              *)
(***************************************************************************)
\* Sinogram(data) or Sinogram(data, meta=m.dict)
Construct(data, m) ==
    LET ds  == IF m.given THEN Append(dicts, m.dict) ELSE dicts
        ref == IF m.given THEN Len(dicts) + 1 ELSE DefaultMeta
        r   == SinogramInit(data, ref, ds)
    IN  /\ dicts' = r.dicts
        /\ records' = IF r.ok THEN Append(records, r.obj) ELSE records
        /\ op' = "Sinogram"
        /\ arg' = [kind |-> "new", data |-> data, meta |-> m, ref |-> ref]
        /\ out' = IF r.ok THEN [kind |-> "record", rec |-> Len(records) + 1]
                          ELSE [kind |-> "error", err |-> r.err]
        /\ plot' = NoPlot

\* from_csv(file_name): the header gives document_id, the lines the data.  A
\* file without data lines gives a 1-D array, whose shape[1] is an IndexError.
FromCsv(f) ==
    LET ds  == Append(dicts, [document_id |-> f.header])
        ref == Len(dicts) + 1
        r   == SinogramInit(CsvData(f.lines), ref, ds)
        ok  == Len(f.lines) > 0 /\ r.ok
    IN  /\ dicts' = IF ok THEN r.dicts ELSE ds
        /\ records' = IF ok THEN Append(records, r.obj) ELSE records
        /\ op' = "from_csv"
        /\ arg' = [kind |-> "csv", file |-> f]
        /\ out' = IF Len(f.lines) = 0 THEN [kind |-> "error", err |-> "IndexError"]
                  ELSE IF r.ok THEN [kind |-> "record", rec |-> Len(records) + 1]
                  ELSE [kind |-> "error", err |-> r.err]
        /\ plot' = NoPlot

\* from_bin(file_name): np.reshape raises ValueError unless the number of
\* values is a multiple of 64; the record is built with the default meta.
FromBin(flat) ==
    LET r  == SinogramInit(Reshape(flat), DefaultMeta, dicts)
        ok == Len(flat) % BinLeaves = 0 /\ r.ok
    IN  /\ dicts' = IF ok THEN r.dicts ELSE dicts
        /\ records' = IF ok THEN Append(records, r.obj) ELSE records
        /\ op' = "from_bin"
        /\ arg' = [kind |-> "bin", file |-> flat]
        /\ out' = IF Len(flat) % BinLeaves # 0 THEN [kind |-> "error", err |-> "ValueError"]
                  ELSE IF r.ok THEN [kind |-> "record", rec |-> Len(records) + 1]
                  ELSE [kind |-> "error", err |-> r.err]
        /\ plot' = NoPlot

\* crop(records[i]); out.idx is the column mask the data was indexed with
Crop(i) ==
    LET ds  == Append(dicts, CropMeta)
        ref == Len(dicts) + 1
        r   == SinogramInit(CropData(records[i].data), ref, ds)
    IN  /\ dicts' = r.dicts
        /\ records' = IF r.ok THEN Append(records, r.obj) ELSE records
        /\ op' = "crop"
        /\ arg' = [kind |-> "rec", rec |-> i]
        /\ out' = IF r.ok THEN [kind |-> "record", rec |-> Len(records) + 1,
                                idx |-> CropIdx(records[i].data)]
                          ELSE [kind |-> "error", err |-> r.err]
        /\ plot' = NoPlot

\* get_mod_factor(records[i])
GetModFactor(i) ==
    /\ op' = "get_mod_factor"
    /\ arg' = [kind |-> "rec", rec |-> i]
    /\ out' = ModFactor(records[i].data)
    /\ plot' = NoPlot
    /\ UNCHANGED <<dicts, records>>

\* get_histogram(records[i], bins=n, file_name=f): the plot is saved first
GetHistogram(i, n, f) ==
    /\ op' = "get_histogram"
    /\ arg' = [kind |-> "hist", rec |-> i, bins |-> n, file_name |-> f]
    /\ plot' = IF f # "" THEN SavedPlot(records[i].data, n) ELSE NoPlot
    /\ out' = Histogram(records[i].data, n, f)
    /\ UNCHANGED <<dicts, records>>

\* unshuffle(records[i])
Unshuffle(i) ==
    /\ op' = "unshuffle"
    /\ arg' = [kind |-> "rec", rec |-> i]
    /\ out' = [kind |-> "buckets", buckets |-> Unshuffled(records[i].data)]
    /\ plot' = NoPlot
    /\ UNCHANGED <<dicts, records>>

\* str(records[i])
Str(i) ==
    /\ op' = "str"
    /\ arg' = [kind |-> "rec", rec |-> i]
    /\ out' = StrOf(records[i].data)
    /\ plot' = NoPlot
    /\ UNCHANGED <<dicts, records>>

NoGui == [kind |-> "nogui"]

Init ==
    /\ gui = NoGui
    /\ dicts = <<EmptyDict>>
    /\ records = <<>>
    /\ op = "init"
    /\ arg = [kind |-> "none"]
    /\ out = [kind |-> "none"]
    /\ plot = [kind |-> "none"]

(***************************************************************************)
(* Spec: a session of constructions, ingestions and crops.  Every record   *)
(* produced stays in `records`; the session ends when MaxRecords records   *)
(* or MaxRecords caller dicts exist.                                       *)
(***************************************************************************)
OneRow(w) == [shape |-> <<1, w>>, rows |-> <<WideRow(w, 1, w)>>]

SessionArrays ==
    {[shape |-> <<1, 2>>, rows |-> <<(<<0, 1>>)>>], OneRow(MaxLeaves), OneRow(MaxLeaves + 1)}

SessionMetas ==
    {NoMeta, [given |-> TRUE, dict |-> [cropped |-> TRUE]],
     [given |-> TRUE, dict |-> [document_id |-> "id1", cropped |-> FALSE]]}

CsvFiles ==
    {[header |-> "id1", lines |-> <<>>]}
    \cup {[header |-> "id1", lines |-> [i \in 1..a.shape[1] |-> <<0>> \o a.rows[i]]] :
             a \in SessionArrays}

BinFiles == {Flatten(a.rows) : a \in {OneRow(MaxLeaves), OneRow(MaxLeaves + 1)}}

\* the session goes on
Open == Len(records) < MaxRecords /\ Len(dicts) <= MaxRecords

NewSinogram ==
    Open /\ UNCHANGED gui /\ \E a \in SessionArrays, m \in SessionMetas : Construct(a, m)

ReadCsv == Open /\ UNCHANGED gui /\ \E f \in CsvFiles : FromCsv(f)

ReadBin == Open /\ UNCHANGED gui /\ \E f \in BinFiles : FromBin(f)

CropAny == Open /\ UNCHANGED gui /\ \E i \in 1..Len(records) : Crop(i)

Next == NewSinogram \/ ReadCsv \/ ReadBin \/ CropAny

Spec == Init /\ [][Next]_vars

(***************************************************************************)
(* SpecFn: one call of Sinogram(data, meta) on any input array, then one   *)
(* transform applied to the record it built.                               *)
(***************************************************************************)
FnArrays == SmallArrays \cup WideArrays \cup TallArrays

FnMeta == [given |-> TRUE, dict |-> [document_id |-> "id1"]]

FileNames == {"", "hist"}

Build == op = "init" /\ UNCHANGED gui /\ \E a \in FnArrays : Construct(a, FnMeta)

Built == op = "Sinogram" /\ out.kind = "record"

CropFirst == Built /\ UNCHANGED gui /\ Crop(1)

\* crop of the record the first crop returned
CropAgain ==
    op = "crop" /\ arg.rec = 1 /\ out.kind = "record" /\ UNCHANGED gui /\ Crop(out.rec)

ModFactorFirst == Built /\ UNCHANGED gui /\ GetModFactor(1)

HistogramFirst ==
    Built /\ UNCHANGED gui /\ \E n \in 1..MaxBins, f \in FileNames : GetHistogram(1, n, f)

UnshuffleFirst == Built /\ UNCHANGED gui /\ Unshuffle(1)

StrFirst == Built /\ UNCHANGED gui /\ Str(1)

NextFn ==
    Build \/ CropFirst \/ CropAgain \/ ModFactorFirst \/ HistogramFirst
        \/ UnshuffleFirst \/ StrFirst

SpecFn == Init /\ [][NextFn]_vars

(***************************************************************************)
(* sino_gui.py: the Tk application.  gui.sinogram is the value of          *)
(* self.sinogram, gui.status the text update() put into the status bar.    *)
(* A menu handler that raises is reported by Tk and the application goes   *)
(* on; what the handler assigned before the exception stays assigned.      *)
(***************************************************************************)
\* np.zeros((200, 64), dtype=float): a bare array, not a Sinogram
ZerosArray == [kind |-> "ndarray"]

\* the value a function without return statement returns
NoneValue == [kind |-> "None"]

GuiRecord(i) == [kind |-> "record", rec |-> i]

\* bins=10 in GUI.get_histogram
GuiBins == 10

\* to_png(sinogram, file_name) of a record: len(sinogram.data[0]) raises
\* IndexError on an array without rows; otherwise the image is saved and
\* nothing is returned
ToPng(data) ==
    IF data.shape[1] = 0 THEN [kind |-> "error", err |-> "IndexError"]
    ELSE NoneValue

\* to_unshuff_pdf(sinogram, file_name) of a record: each bucket of
\* unshuffle(crop(sinogram)) is drawn with imshow, which raises TypeError on
\* an empty list; otherwise the document is saved and nothing is returned
ToUnshuffPdf(data) ==
    LET angles == Unshuffled(CropData(data))
    IN  IF \E j \in 1..Len(angles) : angles[j] = <<>>
        THEN [kind |-> "error", err |-> "TypeError"]
        ELSE NoneValue

\* what the library functions raise when handed self.sinogram while it is
\* no Sinogram: the .data of an ndarray is a memoryview (no comparison with
\* a number, no 2-D indexing), None has no attribute at all
NotARecord(sinogram, onArray) ==
    [kind |-> "error", err |-> IF sinogram.kind = "ndarray" THEN onArray ELSE "AttributeError"]

\* update(msg): imshow(self.sinogram.data) raises AttributeError on None
\* before the status is set
Update(sinogram, msg) ==
    [sinogram |-> sinogram, status |-> IF sinogram.kind = "None" THEN gui.status ELSE msg]

\* a handler whose library call touched neither records nor dicts
GuiCall(name, result) ==
    /\ op' = name
    /\ arg' = [kind |-> "gui", sinogram |-> gui.sinogram]
    /\ out' = result
    /\ plot' = NoPlot
    /\ UNCHANGED <<dicts, records>>

\* self.sinogram = sinogram.from_csv(filename); self.update('from_csv')
GuiFromCsv(f) ==
    /\ FromCsv(f)
    /\ gui' = IF out'.kind = "record" THEN Update(GuiRecord(out'.rec), <<"from_csv">>) ELSE gui

\* self.sinogram = sinogram.from_bin(filename); self.update('from_bin')
GuiFromBin(flat) ==
    /\ FromBin(flat)
    /\ gui' = IF out'.kind = "record" THEN Update(GuiRecord(out'.rec), <<"from_bin">>) ELSE gui

\* self.sinogram = sinogram.to_png(self.sinogram, filename); self.update('to_png')
GuiToPng ==
    LET r == IF gui.sinogram.kind = "record" THEN ToPng(records[gui.sinogram.rec].data)
             ELSE NotARecord(gui.sinogram, "NotImplementedError")
    IN  /\ GuiCall("gui.to_png", r)
        /\ gui' = IF r.kind = "error" THEN gui ELSE Update(r, <<"to_png">>)

\* initialfile = self.sinogram.meta['document_id'] raises AttributeError when
\* self.sinogram is no Sinogram; then
\* self.sinogram = sinogram.to_unshuff_pdf(self.sinogram, filename);
\* self.update('to_unshuff_pdf')
GuiToUnshuffPdf ==
    LET r == IF gui.sinogram.kind = "record"
             THEN ToUnshuffPdf(records[gui.sinogram.rec].data)
             ELSE [kind |-> "error", err |-> "AttributeError"]
    IN  /\ GuiCall("gui.to_unshuff_pdf", r)
        /\ gui' = IF r.kind = "error" THEN gui ELSE Update(r, <<"to_unshuff_pdf">>)

\* self.sinogram = np.zeros((200,64), dtype=float); self.update('file_clr')
GuiFileClr ==
    /\ GuiCall("gui.file_clr", NoneValue)
    /\ gui' = Update(ZerosArray, <<"file_clr">>)

\* self.sinogram = sinogram.crop(self.sinogram); self.update('crop')
GuiCrop ==
    IF gui.sinogram.kind = "record"
    THEN /\ Crop(gui.sinogram.rec)
         /\ gui' = IF out'.kind = "record" THEN Update(GuiRecord(out'.rec), <<"crop">>) ELSE gui
    ELSE /\ GuiCall("gui.crop", NotARecord(gui.sinogram, "TypeError"))
         /\ gui' = gui

\* mod_factor = sinogram.get_mod_factor(self.sinogram);
\* self.update("Modulation Factor: {0:.3f}".format(mod_factor))
GuiGetModFact ==
    IF gui.sinogram.kind = "record"
    THEN /\ GetModFactor(gui.sinogram.rec)
         /\ gui' = IF out'.kind = "error" THEN gui
                   ELSE Update(gui.sinogram, <<"Modulation Factor: ", out'>>)
    ELSE /\ GuiCall("gui.get_mod_fact", NotARecord(gui.sinogram, "TypeError"))
         /\ gui' = gui

\* initialfile = self.sinogram.meta['document_id'], '' on KeyError;
\* sinogram.get_histogram(self.sinogram, bins=10, file_name=initialfile);
\* self.update('get_histogram')
GuiGetHistogram ==
    IF gui.sinogram.kind = "record"
    THEN LET meta        == dicts[records[gui.sinogram.rec].meta]
             initialfile == IF "document_id" \in DOMAIN meta THEN meta.document_id ELSE ""
         IN  /\ GetHistogram(gui.sinogram.rec, GuiBins, initialfile)
             /\ gui' = IF out'.kind = "error" THEN gui
                       ELSE Update(gui.sinogram, <<"get_histogram">>)
    ELSE /\ GuiCall("gui.get_histogram", [kind |-> "error", err |-> "AttributeError"])
         /\ gui' = gui

\* GUI.__init__: self.sinogram = np.zeros((200,64)); self.update('__init__')
InitGui ==
    /\ gui = [sinogram |-> ZerosArray, status |-> <<"__init__">>]
    /\ dicts = <<EmptyDict>>
    /\ records = <<>>
    /\ op = "init"
    /\ arg = [kind |-> "none"]
    /\ out = [kind |-> "none"]
    /\ plot = [kind |-> "none"]

(***************************************************************************)
(* SpecGui: any sequence of menu commands.  Files are opened and crops     *)
(* made while the session is open (each produces a record); the other      *)
(* commands are always available.                                          *)
(***************************************************************************)
\* a full turn of 64 open leaves
FullTurn ==
    [shape |-> <<NumAngles, MaxLeaves>>,
     rows  |-> [r \in 1..NumAngles |-> WideRow(MaxLeaves, 1, MaxLeaves)]]

\* an empty file, one projection, one value too many, a full turn
GuiBinFiles == {<<>>, Flatten(FullTurn.rows)} \cup BinFiles

MenuFromCsv == Open /\ \E f \in CsvFiles : GuiFromCsv(f)

MenuFromBin == Open /\ \E f \in GuiBinFiles : GuiFromBin(f)

MenuCrop == Open /\ GuiCrop

NextGui ==
    MenuFromCsv \/ MenuFromBin \/ GuiToPng \/ GuiToUnshuffPdf \/ GuiFileClr
        \/ MenuCrop \/ GuiGetModFact \/ GuiGetHistogram

SpecGui == InitGui /\ [][NextGui]_vars

(***************************************************************************)
(* Properties                                                              *)
(***************************************************************************)
\* the record the last call operated on, and the one it returned
InRec == records[arg.rec]

OutRec == records[out.rec]

MetaOf(rec) == dicts[rec.meta]

Cells(data) == (1..data.shape[1]) \X (1..data.shape[2])

At(data, p) == data.rows[p[1]][p[2]]

\* leaf c has an open-time > 0 in at least one projection
LeafActive(data, c) == \E r \in 1..data.shape[1] : data.rows[r][c] > 0

\* C1: constructing a Sinogram from a 2-D array succeeds if and only if the
\* leaf count (second dimension) is in 0..64; above 64 it fails with the
\* error "invalid number of mlc leaves" and no record is produced.
C1_ConstructIffLeafCountValid ==
    op = "Sinogram" =>
        LET w == arg.data.shape[2]
        IN  /\ (out.kind = "record") <=> (0 <= w /\ w <= 64)
            /\ out.kind = "record" =>
                  /\ Len(records) = 1
                  /\ OutRec.data = arg.data
                  /\ OutRec.shape = arg.data.shape
            /\ w > 64 =>
                  /\ out.kind = "error"
                  /\ out.err = "invalid number of mlc leaves"
                  /\ records = <<>>

\* C1 witness: a 65-leaf array was rejected
C1_Witness ==
    /\ op = "Sinogram"
    /\ arg.data.shape = <<2, 65>>
    /\ out.kind = "error"
    /\ records = <<>>

\* C2 (as claimed): crop retains leaf i if and only if leaf i or its mirror
\* leaf (leaf_count - 1 - i) is active, so the retained set is mirror-symmetric.
C2_CropRetainsMirrorUnion ==
    (op = "crop" /\ out.kind = "record") =>
        LET d == InRec.data
            w == d.shape[2]
        IN  /\ Len(out.idx) = w
            /\ \A c \in 1..w :
                  out.idx[c] <=> (LeafActive(d, c) \/ LeafActive(d, w + 1 - c))
            /\ \A c \in 1..w : out.idx[c] <=> out.idx[w + 1 - c]

\* C3 (as claimed): every record produced so far has
\* meta['cropped'] == (leaf_count < 64), whatever was constructed after it.
C3_CroppedFlagOfEveryRecord ==
    \A i \in 1..Len(records) :
        /\ "cropped" \in DOMAIN MetaOf(records[i])
        /\ MetaOf(records[i])["cropped"] = (records[i].shape[2] < 64)

\* C4: on successful construction meta['cropped'] equals (leaf_count < 64)
\* whatever the caller supplied for 'cropped'; every other caller-supplied
\* key (document_id) is kept unchanged and no other key appears.
C4_CroppedOverwrittenOtherKeysKept ==
    /\ (op = "Sinogram" /\ out.kind = "record") =>
          LET m == MetaOf(OutRec)
          IN  /\ "cropped" \in DOMAIN m
              /\ m["cropped"] = (arg.data.shape[2] < 64)
              /\ arg.meta.given =>
                    /\ DOMAIN m = (DOMAIN arg.meta.dict) \cup {"cropped"}
                    /\ \A k \in (DOMAIN arg.meta.dict) \ {"cropped"} :
                          m[k] = arg.meta.dict[k]
    /\ (op = "from_csv" /\ out.kind = "record") =>
          MetaOf(OutRec) =
              [document_id |-> arg.file.header, cropped |-> (OutRec.shape[2] < 64)]

\* C4 witness: the caller said cropped = False for a 2-leaf array and also
\* gave a document_id; the record says cropped = True and keeps the id
C4_Witness ==
    /\ op = "Sinogram"
    /\ out.kind = "record"
    /\ arg.meta.given
    /\ arg.meta.dict = [document_id |-> "id1", cropped |-> FALSE]
    /\ arg.data.shape[2] = 2
    /\ MetaOf(OutRec) = [document_id |-> "id1", cropped |-> TRUE]

\* C5 (as claimed): the record returned by crop has metadata exactly
\* {'cropped': True}, also when no leaf channel was removed.
C5_CropMetaAlwaysCroppedTrue ==
    (op = "crop" /\ out.kind = "record") => MetaOf(OutRec) = [cropped |-> TRUE]

\* C5 (amended): the record returned by crop has metadata exactly
\* {'cropped': leaf_count < 64} for its own leaf count: the prior metadata
\* (document_id) is dropped, the flag is True when fewer than 64 leaves
\* remain and False when all 64 leaves were retained.
C5_CropMetaIsDerivedFlagOnly ==
    (op = "crop" /\ out.kind = "record") =>
        /\ MetaOf(OutRec) = [cropped |-> (OutRec.shape[2] < 64)]
        /\ OutRec.meta # InRec.meta

\* C5 witness: all 64 leaves active, nothing removed, the input carried a
\* document_id and the result says cropped = False
C5_Witness ==
    /\ op = "crop"
    /\ out.kind = "record"
    /\ "document_id" \in DOMAIN MetaOf(InRec)
    /\ InRec.shape[2] = 64
    /\ OutRec.shape[2] = 64
    /\ MetaOf(OutRec) = [cropped |-> FALSE]

\* the sum of the cells of S, row by row
SumCells(data, S) ==
    SumSeq([r \in 1..data.shape[1] |->
               SumSeq([c \in 1..data.shape[2] |->
                          IF <<r, c>> \in S THEN At(data, <<r, c>>) ELSE 0])])

PosCells(data) == {p \in Cells(data) : At(data, p) > 0}

NegCells(data) == {p \in Cells(data) : At(data, p) < 0}

MaxCell(data) ==
    CHOOSE v \in {At(data, p) : p \in Cells(data)} : \A q \in Cells(data) : At(data, q) <= v

MinCell(data) ==
    CHOOSE v \in {At(data, p) : p \in Cells(data)} : \A q \in Cells(data) : v <= At(data, q)

\* comparisons of an integer value with a rational bin edge (den > 0)
GeEdge(v, e) == v * e.den >= e.num

LtEdge(v, e) == v * e.den < e.num

EqEdge(v, e) == v * e.den = e.num

\* the cells a histogram with these edges puts into bin b: lo <= v < hi,
\* the last bin closed on the right
CellsOfBin(data, edges, b) ==
    {p \in Cells(data) :
        /\ GeEdge(At(data, p), edges[b])
        /\ \/ LtEdge(At(data, p), edges[b + 1])
           \/ b = Len(edges) - 1 /\ EqEdge(At(data, p), edges[b + 1])}

\* n bins of equal width (hi - lo) / n between the first and the last edge
EqualWidth(edges, n) ==
    \A b \in 1..n :
        (edges[b + 1].num * edges[b].den - edges[b].num * edges[b + 1].den)
            * n * edges[1].den * edges[n + 1].den
        = (edges[n + 1].num * edges[1].den - edges[1].num * edges[n + 1].den)
            * edges[b].den * edges[b + 1].den

HistCall == op = "get_histogram" /\ Cells(InRec.data) # {}

\* every open-time is within the documented interval 0 <= t <= 1
InDomain(data) == \A p \in Cells(data) : 0 <= At(data, p) /\ At(data, p) <= 1

\* C6 (as claimed, for records with open-times within [0, 1]): get_mod_factor
\* fails with an error for every record in which no open-time is strictly
\* positive, in particular a non-empty all-zero record; it never returns NaN.
C6_ModFactorFailsWithoutPositive ==
    (op = "get_mod_factor" /\ InDomain(InRec.data) /\ PosCells(InRec.data) = {})
        => out.kind = "error"

\* C7: with at least one strictly positive open-time get_mod_factor returns
\* max / mean(positive values): result * sum(positive) = max * count(positive);
\* the result is non-negative and, without negative values, at least 1.
C7_ModFactorIsMaxOverPositiveMean ==
    (op = "get_mod_factor" /\ PosCells(InRec.data) # {}) =>
        LET d == InRec.data
        IN  /\ out.kind = "value"
            /\ out.val.den > 0
            /\ out.val.num * SumCells(d, PosCells(d))
                  = MaxCell(d) * Cardinality(PosCells(d)) * out.val.den
            /\ out.val.num >= 0
            /\ NegCells(d) = {} => out.val.num >= out.val.den

\* C7 witness: a record with a closed leaf, e.g. [[0, 1, 2]]: 2 / 1.5 = 4/3
C7_Witness ==
    /\ op = "get_mod_factor"
    /\ \E p \in Cells(InRec.data) : At(InRec.data, p) = 0
    /\ out.kind = "value"
    /\ out.val = [num |-> 4, den |-> 3]

\* C8 (as claimed, for records whose maximum is not negative): for every
\* non-empty record and n >= 1 the counts of
\* get_histogram sum to the number of values of the record, none dropped,
\* also when values lie outside [0, 1].
C8_HistogramCountsEveryValue ==
    (HistCall /\ MaxCell(InRec.data) >= 0) =>
        /\ out.kind = "hist"
        /\ SumSeq(out.counts) = InRec.shape[1] * InRec.shape[2]

\* C8 (amended): get_histogram raises ValueError when max(values) < 0;
\* otherwise the counts sum to the number of values that lie within the
\* returned range [first edge, last edge], each counted once; values below
\* the first edge are dropped, so the sum is the number of all values exactly
\* when none of them lies below the range, in particular when no value is
\* negative.
C8_HistogramCountsValuesInRange ==
    HistCall =>
        LET d == InRec.data
            n == arg.bins
        IN  IF MaxCell(d) < 0 THEN out.kind = "error" /\ out.err = "ValueError"
            ELSE /\ out.kind = "hist"
                 /\ SumSeq(out.counts) =
                       Cardinality({p \in Cells(d) :
                           /\ GeEdge(At(d, p), out.edges[1])
                           /\ \/ LtEdge(At(d, p), out.edges[n + 1])
                              \/ EqEdge(At(d, p), out.edges[n + 1])})
                 /\ NegCells(d) = {} => SumSeq(out.counts) = Cardinality(Cells(d))
                 /\ (\E p \in Cells(d) : LtEdge(At(d, p), out.edges[1]))
                       => SumSeq(out.counts) < Cardinality(Cells(d))

\* C8 witness: a value above 1 is counted and a negative one is dropped
C8_Witness ==
    /\ HistCall
    /\ out.kind = "hist"
    /\ MaxCell(InRec.data) = 2
    /\ MinCell(InRec.data) = -1
    /\ SumSeq(out.counts) = Cardinality(Cells(InRec.data)) - 1

\* the edge lo/hi as a float
EdgeIs(e, num, den) == e = [num |-> num, den |-> den]

\* C9 (as claimed, for records without negative values whose values are not
\* all identical): get_histogram(record, bins=n) returns n bins of equal
\* width (max - min)/n from min(values) to max(values); every value is
\* counted, v in the bin with lo <= v < hi, the maximum in the last bin.
C9_HistogramSpansMinToMax ==
    (HistCall /\ NegCells(InRec.data) = {} /\ MinCell(InRec.data) < MaxCell(InRec.data)) =>
        LET d == InRec.data
            n == arg.bins
        IN  /\ out.kind = "hist"
            /\ Len(out.counts) = n
            /\ Len(out.edges) = n + 1
            /\ EdgeIs(out.edges[1], MinCell(d), 1)
            /\ EdgeIs(out.edges[n + 1], MaxCell(d), 1)
            /\ EqualWidth(out.edges, n)
            /\ \A b \in 1..n : out.counts[b] = Cardinality(CellsOfBin(d, out.edges, b))
            /\ SumSeq(out.counts) = Cardinality(Cells(d))

\* C9 (amended): for a non-empty record with max(values) >= 0,
\* get_histogram(record, bins=n) returns exactly n bins of equal width
\* (hi - lo)/n whose lowest bound lo is 0 (not min(values)) and whose highest
\* bound hi is max(values) when max(values) > 0; when max(values) = 0 the
\* bounds are -0.5 and 0.5.  Every value in [lo, hi], zeros included, is
\* counted in the bin with lo_b <= v < hi_b; when max(values) > 0 the maximum
\* is counted in the last bin (closed on the right); values below lo are not
\* counted.
C9_HistogramSpansZeroToMax ==
    (HistCall /\ MaxCell(InRec.data) >= 0) =>
        LET d  == InRec.data
            n  == arg.bins
            mx == MaxCell(InRec.data)
        IN  /\ out.kind = "hist"
            /\ Len(out.counts) = n
            /\ Len(out.edges) = n + 1
            /\ mx > 0 =>
                  /\ EdgeIs(out.edges[1], 0, 1)
                  /\ EdgeIs(out.edges[n + 1], mx, 1)
            /\ mx = 0 =>
                  /\ EdgeIs(out.edges[1], -1, 2)
                  /\ EdgeIs(out.edges[n + 1], 1, 2)
            /\ EqualWidth(out.edges, n)
            /\ \A b \in 1..n : out.counts[b] = Cardinality(CellsOfBin(d, out.edges, b))
            /\ \A p \in Cells(d) :
                  At(d, p) >= 0 => \E b \in 1..n : p \in CellsOfBin(d, out.edges, b)
            /\ \A p \in Cells(d) :
                  At(d, p) < 0 => ~ \E b \in 1..n : p \in CellsOfBin(d, out.edges, b)
            /\ mx > 0 =>
                  out.counts[n] >= Cardinality({p \in Cells(d) : At(d, p) = mx})

\* C9 witness: three bins over a record whose minimum is above 0, e.g.
\* [[1, 2]]: the bins start at 0, the first one is empty, the maximum is in
\* the last one
C9_Witness ==
    /\ HistCall
    /\ out.kind = "hist"
    /\ arg.bins = 3
    /\ MinCell(InRec.data) = 1
    /\ MaxCell(InRec.data) = 2
    /\ EdgeIs(out.edges[1], 0, 1)
    /\ EdgeIs(out.edges[2], 2, 3)
    /\ out.counts[1] = 0
    /\ out.counts[3] >= 1

\* C10 (as claimed, for records with open-times within [0, 1] and an open
\* leaf): when the caller requests open-leaf statistics (a file name for the
\* graph), the returned bins span [0, max(values)] and only values > 0 are
\* counted: the returned counts sum to the number of strictly positive values.
C10_OpenLeafPolicyReturned ==
    (HistCall /\ arg.file_name # "" /\ InDomain(InRec.data) /\ PosCells(InRec.data) # {}) =>
        LET d == InRec.data
            n == arg.bins
        IN  /\ out.kind = "hist"
            /\ EdgeIs(out.edges[1], 0, 1)
            /\ EdgeIs(out.edges[n + 1], MaxCell(d), 1)
            /\ SumSeq(out.counts) = Cardinality(PosCells(d))

\* C10 (amended): the histogram operation has no open-leaf policy for the
\* value it returns.  With a file name only the graph it saves is built from
\* the values > 0 (the plotted counts sum to the number of strictly positive
\* values); the returned histogram is not restricted: for max(values) > 0
\* its bins span [0, max(values)] and its counts sum to the number of values
\* >= 0, zeros included, with or without a file name.  Without a file name
\* nothing is plotted.
C10_OpenLeafOnlyInSavedPlot ==
    HistCall =>
        LET d == InRec.data
            n == arg.bins
        IN  /\ arg.file_name = "" => plot.kind = "none"
            /\ arg.file_name # "" =>
                  /\ plot.kind = "hist"
                  /\ Len(plot.counts) = n
                  /\ SumSeq(plot.counts) = Cardinality(PosCells(d))
            /\ MaxCell(d) > 0 =>
                  /\ out.kind = "hist"
                  /\ EdgeIs(out.edges[1], 0, 1)
                  /\ EdgeIs(out.edges[n + 1], MaxCell(d), 1)
                  /\ SumSeq(out.counts) = Cardinality(Cells(d) \ NegCells(d))

\* C10 witness: a graph was requested for a record with closed and open
\* leaves: the returned counts include the zeros, the plotted ones do not
C10_Witness ==
    /\ HistCall
    /\ arg.file_name # ""
    /\ out.kind = "hist"
    /\ plot.kind = "hist"
    /\ PosCells(InRec.data) # {}
    /\ \E p \in Cells(InRec.data) : At(InRec.data, p) = 0
    /\ SumSeq(plot.counts) < SumSeq(out.counts)

\* all values of a non-empty array are the same
AllSame(data) == Cells(data) # {} /\ MinCell(data) = MaxCell(data)

\* one bin holds `total` values, all the others none
SingleBin(counts, total) ==
    \E b \in 1..Len(counts) :
        /\ counts[b] = total
        /\ \A c \in 1..Len(counts) : c # b => counts[c] = 0

\* every bin has the width num / den (den > 0)
WidthIs(edges, num, den) ==
    \A b \in 1..(Len(edges) - 1) :
        (edges[b + 1].num * edges[b].den - edges[b].num * edges[b + 1].den) * den
            = num * edges[b].den * edges[b + 1].den

\* C11 (as claimed, for records with open-times within [0, 1]): when all
\* values of a non-empty record are identical, get_histogram does not fail,
\* uses a bin width of 0 and places all values in a single bin.
C11_IdenticalValuesZeroWidth ==
    (HistCall /\ InDomain(InRec.data) /\ AllSame(InRec.data)) =>
        /\ out.kind = "hist"
        /\ SingleBin(out.counts, Cardinality(Cells(InRec.data)))
        /\ WidthIs(out.edges, 0, 1)

\* C11 (amended): when all values of a non-empty record are the same value
\* v >= 0, get_histogram(record, bins=n) does not fail and counts all values
\* in one bin, the other bins empty; the bin width is never 0: it is v / n
\* for v > 0 (bins over [0, v], the values in the last bin) and 1 / n for the
\* all-zero record (bins over [-0.5, 0.5]).  For v < 0 the call raises
\* ValueError.
C11_IdenticalValuesOneBinPositiveWidth ==
    (HistCall /\ AllSame(InRec.data)) =>
        LET d == InRec.data
            v == MaxCell(d)
            n == arg.bins
        IN  IF v < 0 THEN out.kind = "error" /\ out.err = "ValueError"
            ELSE /\ out.kind = "hist"
                 /\ Len(out.counts) = n
                 /\ SingleBin(out.counts, Cardinality(Cells(d)))
                 /\ WidthIs(out.edges, IF v > 0 THEN v ELSE 1, n)
                 /\ ~ WidthIs(out.edges, 0, 1)
                 /\ v > 0 => out.counts[n] = Cardinality(Cells(d))
                 /\ v = 0 => /\ EdgeIs(out.edges[1], -1, 2)
                             /\ EdgeIs(out.edges[n + 1], 1, 2)

\* C11 witness: the all-zero record [[0, 0]] in three bins: both values in
\* the middle bin, the bins 1/3 wide
C11_Witness ==
    /\ HistCall
    /\ AllSame(InRec.data)
    /\ MaxCell(InRec.data) = 0
    /\ Cardinality(Cells(InRec.data)) = 2
    /\ arg.bins = 3
    /\ out.kind = "hist"
    /\ out.counts = <<0, 2, 0>>
    /\ WidthIs(out.edges, 1, 3)

\* the projections k (0-based) of N with k mod 51 = j, in increasing k
TurnsOf(j, N) == {k \in 0..(N - 1) : k % 51 = j}

\* C12: unshuffle puts projection k (0-based) into bucket k mod 51 and
\* nowhere else, in increasing k inside each bucket: bucket j holds exactly
\* the projections j, j + 51, j + 102, ...; for 510 projections every bucket
\* holds exactly 10.
C12_UnshuffleRoundRobin ==
    op = "unshuffle" =>
        LET rows == InRec.data.rows
            N    == InRec.shape[1]
            B    == out.buckets
        IN  /\ out.kind = "buckets"
            /\ DOMAIN B = 1..51
            /\ \A j \in 0..50 :
                  /\ Len(B[j + 1]) = Cardinality(TurnsOf(j, N))
                  /\ \A m \in 1..Len(B[j + 1]) : B[j + 1][m] = rows[j + 51 * (m - 1) + 1]
            /\ SumSeq([j \in 1..51 |-> Len(B[j])]) = N
            /\ N = 510 => \A j \in 1..51 : Len(B[j]) = 10

\* C12 witness: 510 different projections; the second projection of the
\* first bucket is projection 51, the last bucket ends with projection 509
C12_Witness ==
    /\ op = "unshuffle"
    /\ InRec.shape[1] = 510
    /\ InRec.data.rows[1] # InRec.data.rows[52]
    /\ out.buckets[1][2] = InRec.data.rows[52]
    /\ Len(out.buckets[51]) = 10
    /\ out.buckets[51][10] = InRec.data.rows[510]

\* C13: unshuffle returns exactly 51 buckets for every input length: all of
\* them empty for an input without projections, the unused ones present and
\* empty for fewer than 51 projections.
C13_UnshuffleAlways51Buckets ==
    op = "unshuffle" =>
        LET N == InRec.shape[1]
            B == out.buckets
        IN  /\ out.kind = "buckets"
            /\ Len(B) = 51
            /\ \A j \in 1..51 : j > N => B[j] = <<>>
            /\ \A j \in 1..51 : j <= N => B[j] # <<>>

\* C13 witness: a record of 64 leaves without projections gives 51 empty
\* buckets
C13_Witness ==
    /\ op = "unshuffle"
    /\ InRec.shape = <<0, 64>>
    /\ Len(out.buckets) = 51
    /\ \A j \in 1..51 : out.buckets[j] = <<>>

\* C14: crop is idempotent: the crop of a record that crop returned succeeds
\* and has the same leaf count and the same data (no channel is removed).
C14_CropIdempotent ==
    (op = "crop" /\ arg.rec > 1) =>
        /\ out.kind = "record"
        /\ OutRec.shape = InRec.shape
        /\ OutRec.data = InRec.data

\* C14 witness: the first crop removed channels and kept some, the second
\* crop returned the same data
C14_Witness ==
    /\ op = "crop"
    /\ arg.rec = 2
    /\ out.kind = "record"
    /\ records[1].shape[2] > records[2].shape[2]
    /\ records[2].shape[2] > 1
    /\ records[2].shape[1] > 0
    /\ OutRec.data = records[2].data

\* leaf c is closed (open-time 0) in every projection
LeafClosed(data, c) == \A r \in 1..data.shape[1] : data.rows[r][c] = 0

\* C15: the result of crop has no mirror pair of leaf channels (i and
\* leaf_count' - 1 - i) that are both closed in every projection; it has the
\* projections of the input in their order and the retained columns in
\* ascending order of their index in the input.
C15_CropLeavesNoClosedMirrorPair ==
    op = "crop" =>
        LET d    == InRec.data
            kept == {c \in 1..d.shape[2] : out.idx[c]}
        IN  /\ out.kind = "record"
            /\ OutRec.shape = <<d.shape[1], Cardinality(kept)>>
            /\ OutRec.data.shape = OutRec.shape
            /\ Len(OutRec.data.rows) = d.shape[1]
            /\ \A i \in 1..OutRec.shape[2] :
                  ~ (/\ LeafClosed(OutRec.data, i)
                     /\ LeafClosed(OutRec.data, OutRec.shape[2] + 1 - i))
            /\ \A c \in kept : \A r \in 1..d.shape[1] :
                  OutRec.data.rows[r][Cardinality({x \in kept : x <= c})] = d.rows[r][c]

\* C15 witness: two projections of 64 leaves with the two central leaves
\* open (test_crop): the result is 2 x 2, both leaves open
C15_Witness ==
    /\ op = "crop"
    /\ InRec.shape = <<2, 64>>
    /\ out.kind = "record"
    /\ OutRec.shape = <<2, 2>>
    /\ OutRec.data.rows = <<(<<1, 1>>), (<<1, 1>>)>>

\* C16: crop of a sinogram whose open-times are all zero (any projection
\* count, any leaf count in 0..64) succeeds and returns a valid record with
\* zero leaf channels and the same number of projections.
C16_CropAllZeroGivesZeroLeaves ==
    (op = "crop" /\ \A p \in Cells(InRec.data) : At(InRec.data, p) = 0) =>
        /\ out.kind = "record"
        /\ OutRec.shape = <<InRec.shape[1], 0>>
        /\ OutRec.data.shape = <<InRec.shape[1], 0>>
        /\ OutRec.data.rows = [r \in 1..InRec.shape[1] |-> <<>>]
        /\ 0 <= OutRec.shape[2] /\ OutRec.shape[2] <= 64
        /\ MetaOf(OutRec) = [cropped |-> TRUE]

\* C16 witness: two all-zero projections of 64 leaves crop to a 2 x 0 record
C16_Witness ==
    /\ op = "crop"
    /\ InRec.shape = <<2, 64>>
    /\ \A p \in Cells(InRec.data) : At(InRec.data, p) = 0
    /\ out.kind = "record"
    /\ OutRec.shape = <<2, 0>>

\* C17 (as claimed): str of every record with zero projections, for any leaf
\* count in 0..64, returns the empty string and never raises; str of a
\* record with at least one projection and one leaf returns a non-empty
\* description.
C17_StrEmptyForZeroProjections ==
    op = "str" =>
        /\ InRec.shape[1] = 0 => out = [kind |-> "str", text |-> <<>>]
        /\ (InRec.shape[1] > 0 /\ InRec.shape[2] > 0) =>
              out.kind = "str" /\ out.text # <<>>

\* the caller's arrays and mappings and the records that existed before a
\* step are the same after it
InputsKept ==
    /\ \A i \in 1..Len(records) :
          /\ i <= Len(records')
          /\ records'[i] = records[i]
          /\ dicts'[records[i].meta] = dicts[records[i].meta]
    /\ (op' = "Sinogram" /\ arg'.meta.given) => dicts'[arg'.ref] = arg'.meta.dict

\* C18 (as claimed): no core operation mutates its input: after Sinogram
\* construction, crop, unshuffle, get_histogram or get_mod_factor the
\* caller's data array, the caller's metadata mapping and the input record
\* (data, meta, shape) are what they were before the call.
C18_NoOperationMutatesInput == [][InputsKept]_vars

\* C19 (as claimed): in the GUI the export actions To PNG and To UnshuffPDF
\* leave the currently loaded sinogram unchanged: after an export
\* self.sinogram is the same record as before.
C19_ExportKeepsCurrentSinogram ==
    [][(gui.sinogram.kind = "record" /\ op' \in {"gui.to_png", "gui.to_unshuff_pdf"})
          => gui'.sinogram = gui.sinogram]_vars

\* C20 (as claimed): in every state reachable by menu actions, startup and
\* the state after Clear included, the GUI's current sinogram is a Sinogram
\* record.
C20_CurrentSinogramIsARecord ==
    /\ gui.sinogram.kind = "record"
    /\ gui.sinogram.rec \in 1..Len(records)

====
